---- MODULE Spec2Model ----
(***************************************************************************)
(* Strategy dispatch of sqlalchemy.orm.interfaces: MapperProperty.init,    *)
(* StrategizedProperty (_get_context_loader, _get_strategy, setup,         *)
(* create_row_processor, do_init, strategy_for, _strategy_lookup) and      *)
(* LoaderStrategy.__init__, as one state machine.                          *)
(***************************************************************************)
EXTENDS Naturals, Sequences, FiniteSets, TLC

VARIABLES
    _all_strategies,      \* StrategizedProperty._all_strategies, in dict insertion order
    _strategy_keys,       \* dec_cls._strategy_keys of every strategy class
    _configure_started,   \* MapperProperty._configure_started, per property
    _configure_finished,  \* MapperProperty._configure_finished, per property
    _strategies,          \* StrategizedProperty._strategies, per property
    strategy,             \* StrategizedProperty.strategy, per property (0: unset)
    instances,            \* every LoaderStrategy object constructed so far
    attributes,           \* context.attributes of the compile context in use
    last,                 \* what the last call did and returned
    threads,              \* each thread's position inside _get_strategy, and its locals
    non_primary,          \* self.parent.non_primary, per property
    class_manager         \* mapper.class_manager: who installed the impl of each key

vars == <<_all_strategies, _strategy_keys, _configure_started,
          _configure_finished, _strategies, strategy, instances,
          attributes, last, threads, non_primary, class_manager>>

\* the state of concurrent callers and of class instrumentation
aside == <<threads, non_primary, class_manager>>

-----------------------------------------------------------------------------
(* Bounds of the model.                                                    *)

\* strategy_for is applied at most this many times
MaxRegistrations == 2

\* at most this many LoaderStrategy objects are constructed
MaxInstances == 3

\* a compile context holds at most this many load options
MaxOptions == 3

-----------------------------------------------------------------------------
(* The mapped properties, their classes and the strategy classes.          *)

\* the mapped attributes of the entity: a relationship and a column
Props == {"addresses", "name"}

\* type(self) of each property
PropClass(p) == IF p = "addresses" THEN "DerivedRelationship" ELSE "ColumnProperty"

\* cls.__mro__ of the property classes (object, which owns no registry, left out)
Mro(cls) ==
    CASE cls = "DerivedRelationship" ->
           <<"DerivedRelationship", "RelationshipProperty",
             "StrategizedProperty", "MapperProperty">>
      [] cls = "RelationshipProperty" ->
           <<"RelationshipProperty", "StrategizedProperty", "MapperProperty">>
      [] cls = "ColumnProperty" ->
           <<"ColumnProperty", "StrategizedProperty", "MapperProperty">>
      [] cls = "StrategizedProperty" ->
           <<"StrategizedProperty", "MapperProperty">>
      [] OTHER -> <<"MapperProperty">>

\* the property classes strategy_for is called on
OwnerClasses == {"DerivedRelationship", "RelationshipProperty", "ColumnProperty"}

\* dec_cls.__mro__ of the strategy classes, up to LoaderStrategy (which has
\* no _strategy_keys): LoaderB is a subclass of LoaderA
StrategyMro(cls) ==
    IF cls = "LoaderB" THEN <<"LoaderB", "LoaderA">> ELSE <<cls>>

\* the LoaderStrategy subclasses that get decorated
StrategyClasses == {"LoaderA", "LoaderB"}

\* the threads that compile queries against the one mapping
Threads == {"t1", "t2"}

\* the mapped classes post_instrument_class is called for: the property's
\* own mapper and the mapper of a subclass that inherits the property
Mappers == {"User", "Admin"}

\* rank of an option name in Python's string order: "deferred" < "instrument" < "lazy"
NameRank(name) ==
    CASE name = "deferred" -> 1
      [] name = "instrument" -> 2
      [] OTHER -> 3

\* the option pairs of the model: one single pair, and one set of two pairs
\* written in both orders
LazySelect == << <<"lazy", "select">> >>
DeferredInstrument == << <<"deferred", "no">>, <<"instrument", "yes">> >>
InstrumentDeferred == << <<"instrument", "yes">>, <<"deferred", "no">> >>

\* the keyword arguments given to strategy_for, in call order
KwInputs == { LazySelect, DeferredInstrument, InstrumentDeferred }

\* self.strategy_key of each property, set by the property's constructor
strategy_key(self) ==
    IF self = "addresses" THEN LazySelect ELSE DeferredInstrument

\* the key tuples handed to _get_strategy by direct callers
KeyInputs == KwInputs

-----------------------------------------------------------------------------
(* tuple(sorted(kw.items())): pairs compare by name first; the names of a  *)
(* dict are distinct, so the values never decide.                          *)

PairLess(x, y) == NameRank(x[1]) < NameRank(y[1])

RECURSIVE InsertSorted(_, _)
InsertSorted(s, x) ==
    IF s = <<>> THEN <<x>>
    ELSE IF PairLess(x, Head(s)) THEN <<x>> \o s
    ELSE <<Head(s)>> \o InsertSorted(Tail(s), x)

RECURSIVE sorted(_)
sorted(items) ==
    IF items = <<>> THEN <<>>
    ELSE InsertSorted(sorted(SubSeq(items, 1, Len(items) - 1)), items[Len(items)])

\* the pairs kept in call order, as if the sort were dropped
normalized_key_unsorted(kw) == kw

\* key = tuple(sorted(kw.items()))
normalized_key(kw) == sorted(kw)

-----------------------------------------------------------------------------
(* _all_strategies = collections.defaultdict(dict): a sequence of          *)
(* [cls, strats] entries in insertion order, strats a key -> class map.    *)

\* prop_cls in cls._all_strategies
HasRegistry(reg, cls) == \E i \in 1..Len(reg) : reg[i].cls = cls

RegistryIndex(reg, cls) == CHOOSE i \in 1..Len(reg) : reg[i].cls = cls

\* cls._all_strategies[prop_cls], read where the entry exists
RegistryOf(reg, cls) == reg[RegistryIndex(reg, cls)].strats

\* cls._all_strategies[cls][key] = dec_cls (the defaultdict makes a missing entry)
RegistryPut(reg, cls, key, dec_cls) ==
    IF HasRegistry(reg, cls)
    THEN [reg EXCEPT ![RegistryIndex(reg, cls)].strats = (key :> dec_cls) @@ @]
    ELSE Append(reg, [cls |-> cls, strats |-> (key :> dec_cls)])

\* decorate(dec_cls) of strategy_for(**kw): the registry after it
strategy_for(reg, cls, kw, dec_cls) ==
    RegistryPut(reg, cls, normalized_key(kw), dec_cls)

\* a decorate without the "_strategy_keys" not in dec_cls.__dict__ test taken
\* on the class itself: a class whose base has a list appends to that list
strategy_for_keys_inherited(skeys, kw, dec_cls) ==
    LET holders == { i \in 1..Len(StrategyMro(dec_cls)) :
                        skeys[StrategyMro(dec_cls)[i]].own }
        holder == IF holders = {} THEN dec_cls
                  ELSE StrategyMro(dec_cls)[
                          CHOOSE i \in holders : \A j \in holders : i <= j]
    IN  [skeys EXCEPT ![holder] =
            [own |-> TRUE,
             keys |-> Append(IF @.own THEN @.keys ELSE <<>>, normalized_key(kw))]]

\* decorate(dec_cls) of strategy_for(**kw): _strategy_keys after it
strategy_for_keys(skeys, kw, dec_cls) ==
    LET own == IF skeys[dec_cls].own THEN skeys[dec_cls].keys ELSE <<>>
    IN  [skeys EXCEPT ![dec_cls] =
            [own |-> TRUE, keys |-> Append(own, normalized_key(kw))]]

-----------------------------------------------------------------------------
(* _strategy_lookup(cls, requesting_property, *key)                        *)

NoClass == "None"

\* the same walk from the far end of the MRO: the most basic class decides
RECURSIVE MroSearch_reversed(_, _, _, _)
MroSearch_reversed(reg, mro, i, key) ==
    IF i > Len(mro) THEN NoClass
    ELSE LET j == Len(mro) + 1 - i
         IN  IF HasRegistry(reg, mro[j]) /\ key \in DOMAIN RegistryOf(reg, mro[j])
             THEN RegistryOf(reg, mro[j])[key]
             ELSE MroSearch_reversed(reg, mro, i + 1, key)

\* the registries taken in the order they were made, not in MRO order: the
\* first one of a class of the MRO that holds key decides
RECURSIVE MroSearch_by_insertion(_, _, _, _)
MroSearch_by_insertion(reg, mro, i, key) ==
    IF i > Len(reg) THEN NoClass
    ELSE IF /\ \E j \in 1..Len(mro) : mro[j] = reg[i].cls
            /\ key \in DOMAIN reg[i].strats
    THEN reg[i].strats[key]
    ELSE MroSearch_by_insertion(reg, mro, i + 1, key)

\* for prop_cls in cls.__mro__: the first registry holding key decides
RECURSIVE MroSearch(_, _, _, _)
MroSearch(reg, mro, i, key) ==
    IF i > Len(mro) THEN NoClass
    ELSE IF HasRegistry(reg, mro[i]) /\ key \in DOMAIN RegistryOf(reg, mro[i])
    THEN RegistryOf(reg, mro[i])[key]
    ELSE MroSearch(reg, mro, i + 1, key)

\* a scan that stops at the first registry without asking whether it holds key
DiagnosticScan_first(reg, i, key) ==
    IF i > Len(reg)
    THEN [intended_property_type |-> NoClass, actual_strategy |-> NoClass]
    ELSE [intended_property_type |-> reg[i].cls,
          actual_strategy |-> IF key \in DOMAIN reg[i].strats
                              THEN reg[i].strats[key] ELSE NoClass]

\* for property_type, strats in cls._all_strategies.items(): ... break / else
RECURSIVE DiagnosticScan(_, _, _)
DiagnosticScan(reg, i, key) ==
    IF i > Len(reg)
    THEN [intended_property_type |-> NoClass, actual_strategy |-> NoClass]
    ELSE IF key \in DOMAIN reg[i].strats
    THEN [intended_property_type |-> reg[i].cls,
          actual_strategy |-> reg[i].strats[key]]
    ELSE DiagnosticScan(reg, i + 1, key)

\* orm_exc.LoaderStrategyException(cls, requesting_property, ..., key)
LoaderStrategyException(cls, requesting_property, found, key) ==
    [cls |-> cls,
     requesting_property |-> requesting_property,
     intended_property_type |-> found.intended_property_type,
     actual_strategy |-> found.actual_strategy,
     key |-> key]

\* a lookup that returns what the scan over all registries found
_strategy_lookup_scan(reg, cls, requesting_property, key) ==
    LET hit == MroSearch(reg, Mro(cls), 1, key)
        found == DiagnosticScan(reg, 1, key)
    IN  IF hit # NoClass THEN [returned |-> hit, raised |-> <<>>]
        ELSE IF found.actual_strategy # NoClass
        THEN [returned |-> found.actual_strategy, raised |-> <<>>]
        ELSE [returned |-> NoClass,
              raised |-> <<LoaderStrategyException(
                              cls, requesting_property, found, key)>>]

\* the result: [returned: the strategy class, raised: <<>> or <<exception>>]
_strategy_lookup(reg, cls, requesting_property, key) ==
    LET hit == MroSearch(reg, Mro(cls), 1, key)
    IN  IF hit # NoClass
        THEN [returned |-> hit, raised |-> <<>>]
        ELSE [returned |-> NoClass,
              raised |-> <<LoaderStrategyException(
                              cls, requesting_property,
                              DiagnosticScan(reg, 1, key), key)>>]

-----------------------------------------------------------------------------
(* LoaderStrategy objects and the strategy cache of a property.            *)

\* LoaderStrategy.__init__(self, parent, strategy_key), for an object of class cls
LoaderStrategy(cls, parent, key) ==
    [cls |-> cls,
     parent_property |-> parent,
     is_class_level |-> FALSE,
     key |-> parent,
     strategy_key |-> key]

\* a _get_strategy that never reads the cache: every call constructs
_get_strategy_uncached(cache, heap, reg, self, key) ==
    LET found == _strategy_lookup(reg, PropClass(self), self, key)
    IN  IF found.raised # <<>>
        THEN [returned |-> 0, _strategies |-> cache, instances |-> heap,
              raised |-> found.raised]
        ELSE [returned |-> Len(heap) + 1,
              _strategies |-> (key :> (Len(heap) + 1)) @@ cache,
              instances |-> Append(heap, LoaderStrategy(found.returned, self, key)),
              raised |-> <<>>]

\* a _get_strategy that remembers a failed lookup: the key is cached with
\* no strategy (0) before the exception leaves
_get_strategy_negative(cache, heap, reg, self, key) ==
    IF key \in DOMAIN cache
    THEN [returned |-> cache[key], _strategies |-> cache, instances |-> heap,
          raised |-> <<>>]
    ELSE LET found == _strategy_lookup(reg, PropClass(self), self, key)
         IN  IF found.raised # <<>>
             THEN [returned |-> 0, _strategies |-> (key :> 0) @@ cache,
                   instances |-> heap, raised |-> found.raised]
             ELSE [returned |-> Len(heap) + 1,
                   _strategies |-> (key :> (Len(heap) + 1)) @@ cache,
                   instances |-> Append(heap, LoaderStrategy(found.returned, self, key)),
                   raised |-> <<>>]

\* a _get_strategy that keeps one instance per strategy class, as when the
\* cache was keyed by cls: a key that resolves to the class of an instance the
\* property has cached is answered with that instance
_get_strategy_per_class(cache, heap, reg, self, key) ==
    IF key \in DOMAIN cache
    THEN [returned |-> cache[key], _strategies |-> cache, instances |-> heap,
          raised |-> <<>>]
    ELSE LET found == _strategy_lookup(reg, PropClass(self), self, key)
             same == { k \in DOMAIN cache : heap[cache[k]].cls = found.returned }
         IN  IF found.raised # <<>>
             THEN [returned |-> 0, _strategies |-> cache, instances |-> heap,
                   raised |-> found.raised]
             ELSE IF same # {}
             THEN [returned |-> cache[CHOOSE k \in same : TRUE],
                   _strategies |-> (key :> cache[CHOOSE k \in same : TRUE]) @@ cache,
                   instances |-> heap, raised |-> <<>>]
             ELSE [returned |-> Len(heap) + 1,
                   _strategies |-> (key :> (Len(heap) + 1)) @@ cache,
                   instances |-> Append(heap, LoaderStrategy(found.returned, self, key)),
                   raised |-> <<>>]

\* self._get_strategy(key) on the cache and the objects given: what it returns
\* (an index into instances, 0 when it raises), the cache and the objects after it
_get_strategy(cache, heap, reg, self, key) ==
    IF key \in DOMAIN cache
    THEN [returned |-> cache[key], _strategies |-> cache, instances |-> heap,
          raised |-> <<>>]
    ELSE LET found == _strategy_lookup(reg, PropClass(self), self, key)
         IN  IF found.raised # <<>>
             THEN [returned |-> 0, _strategies |-> cache, instances |-> heap,
                   raised |-> found.raised]
             ELSE [returned |-> Len(heap) + 1,
                   _strategies |-> (key :> (Len(heap) + 1)) @@ cache,
                   instances |-> Append(heap, LoaderStrategy(found.returned, self, key)),
                   raised |-> <<>>]

\* try: return self._strategies[key] / except KeyError: pass   (0: a miss)
cache_probe(cache, key) == IF key \in DOMAIN cache THEN cache[key] ELSE 0

\* a store that starts the cache over with the one new entry
cache_store_fresh(cache, key, new) == (key :> new)

\* self._strategies[key] = strategy: one dict store, other keys untouched
cache_store(cache, key, new) == (key :> new) @@ cache

\* a do_init that does nothing once the property has a default strategy
do_init_guarded(cache, heap, reg, oldstrategy, self) ==
    IF oldstrategy # 0
    THEN [_strategies |-> cache, strategy |-> oldstrategy, instances |-> heap,
          raised |-> <<>>]
    ELSE LET got == _get_strategy(<<>>, heap, reg, self, strategy_key(self))
         IN  [_strategies |-> got._strategies,
              strategy |-> IF got.raised # <<>> THEN oldstrategy ELSE got.returned,
              instances |-> got.instances,
              raised |-> got.raised]

\* a do_init that builds the default strategy without caching it
do_init_uncached(cache, heap, reg, oldstrategy, self) ==
    LET got == _get_strategy(<<>>, heap, reg, self, strategy_key(self))
    IN  [_strategies |-> <<>>,
         strategy |-> IF got.raised # <<>> THEN oldstrategy ELSE got.returned,
         instances |-> got.instances,
         raised |-> got.raised]

\* StrategizedProperty.do_init: a fresh cache, then the default strategy
\* (cache, the cache before the call, is not read: it is replaced)
do_init(cache, heap, reg, oldstrategy, self) ==
    LET got == _get_strategy(<<>>, heap, reg, self, strategy_key(self))
    IN  [_strategies |-> got._strategies,
         strategy |-> IF got.raised # <<>> THEN oldstrategy ELSE got.returned,
         instances |-> got.instances,
         raised |-> got.raised]

\* an init that marks an already configured property as not configured
init_invalidate(cache, heap, reg, oldstrategy, finished, self) ==
    LET done == do_init(cache, heap, reg, oldstrategy, self)
    IN  [_configure_started |-> TRUE,
         _configure_finished |-> IF done.raised # <<>> THEN finished ELSE ~finished,
         _strategies |-> done._strategies,
         strategy |-> done.strategy,
         instances |-> done.instances,
         raised |-> done.raised]

\* an init that sets _configure_finished whether or not do_init raised
init_finally(cache, heap, reg, oldstrategy, finished, self) ==
    LET done == do_init(cache, heap, reg, oldstrategy, self)
    IN  [_configure_started |-> TRUE,
         _configure_finished |-> TRUE,
         _strategies |-> done._strategies,
         strategy |-> done.strategy,
         instances |-> done.instances,
         raised |-> done.raised]

\* MapperProperty.init: the flags around do_init; a raise skips the last line
init(cache, heap, reg, oldstrategy, finished, self) ==
    LET done == do_init(cache, heap, reg, oldstrategy, self)
    IN  [_configure_started |-> TRUE,
         _configure_finished |-> IF done.raised # <<>> THEN finished ELSE TRUE,
         _strategies |-> done._strategies,
         strategy |-> done.strategy,
         instances |-> done.instances,
         raised |-> done.raised]

-----------------------------------------------------------------------------
(* post_instrument_class(mapper) and the class-level attribute it installs. *)
(* class_manager[mapper][key] lists who installed the implementation of    *)
(* the attribute: strategy objects, or 0 for one that was there before.    *)

\* mapper.class_manager._attr_has_impl(key)
_attr_has_impl(manager, mapper, key) == manager[mapper][key] # <<>>

\* strategy.init_class_attribute(mapper) of a concrete strategy: installs the
\* attribute implementation of its key on the mapped class and sets
\* is_class_level
init_class_attribute(heap, manager, strat, mapper) ==
    [instances |-> [heap EXCEPT ![strat].is_class_level = TRUE],
     class_manager |->
        [manager EXCEPT ![mapper][heap[strat].key] = Append(@, strat)]]

\* a post_instrument_class that does not ask whether the parent mapper is
\* non-primary
post_instrument_class_any_parent(np, heap, manager, default, mapper, self) ==
    IF ~_attr_has_impl(manager, mapper, self)
    THEN LET done == init_class_attribute(heap, manager, default, mapper)
         IN  [instances |-> done.instances,
              class_manager |-> done.class_manager,
              invoked |-> << [strategy |-> default,
                              method |-> "init_class_attribute",
                              mapper |-> mapper] >>]
    ELSE [instances |-> heap, class_manager |-> manager, invoked |-> <<>>]

\* a post_instrument_class that does not ask whether the class has an
\* implementation for the key already
post_instrument_class_again(np, heap, manager, default, mapper, self) ==
    IF ~np[self]
    THEN LET done == init_class_attribute(heap, manager, default, mapper)
         IN  [instances |-> done.instances,
              class_manager |-> done.class_manager,
              invoked |-> << [strategy |-> default,
                              method |-> "init_class_attribute",
                              mapper |-> mapper] >>]
    ELSE [instances |-> heap, class_manager |-> manager, invoked |-> <<>>]

\* StrategizedProperty.post_instrument_class(mapper); self.key is the
\* property's name, np is non_primary of each property's parent mapper
post_instrument_class(np, heap, manager, default, mapper, self) ==
    IF ~np[self] /\ ~_attr_has_impl(manager, mapper, self)
    THEN LET done == init_class_attribute(heap, manager, default, mapper)
         IN  [instances |-> done.instances,
              class_manager |-> done.class_manager,
              invoked |-> << [strategy |-> default,
                              method |-> "init_class_attribute",
                              mapper |-> mapper] >>]
    ELSE [instances |-> heap, class_manager |-> manager, invoked |-> <<>>]

-----------------------------------------------------------------------------
(* Paths, their three lookup keys, and the load options of a context.      *)

\* the class-level strategy_wildcard_key of the property's class
strategy_wildcard_key(self) == IF self = "addresses" THEN "relationship" ELSE "column"

\* path_registry._WILDCARD_TOKEN and path_registry._DEFAULT_TOKEN
WILDCARD_TOKEN == "*"
DEFAULT_TOKEN == "_sa_default"

\* f"{strategy_wildcard_key}:{token}"
TokenString(wildcard_key, token) ==
    CASE wildcard_key = "relationship" /\ token = WILDCARD_TOKEN -> "relationship:*"
      [] wildcard_key = "relationship" /\ token = DEFAULT_TOKEN -> "relationship:_sa_default"
      [] wildcard_key = "column" /\ token = WILDCARD_TOKEN -> "column:*"
      [] OTHER -> "column:_sa_default"

\* a wildcard token that leaves the property's category out
_wildcard_token_shared(self) == <<TokenString("relationship", WILDCARD_TOKEN)>>

\* StrategizedProperty._wildcard_token
_wildcard_token(self) == <<TokenString(strategy_wildcard_key(self), WILDCARD_TOKEN)>>

\* StrategizedProperty._default_path_loader_key
_default_path_loader_key(self) ==
    <<"loader", <<TokenString(strategy_wildcard_key(self), DEFAULT_TOKEN)>> >>

\* the paths a property is loaded along: the hops that lead to its entity
ParentPaths == { <<"User">>, <<"Order", "user", "User">> }

\* search_path = path[self], and search_path._loader_key
_loader_key(path, self) == <<"loader", Append(path, self)>>

\* search_path._wildcard_path_loader_key
_wildcard_path_loader_key(path, self) == <<"loader", path \o _wildcard_token(self)>>

\* the keys context.attributes may hold a load option under
ContextKeys ==
    UNION { { _loader_key(path, self),
              _wildcard_path_loader_key(path, self),
              _default_path_loader_key(self) } : path \in ParentPaths, self \in Props }

\* loader.strategy of a load option: a normalized key, or nothing (<<>>)
OptionStrategies == { <<>> } \cup { normalized_key(kw) : kw \in KwInputs }

\* the load option stored under a key: the path it was made for and its strategy
LoadOption(path_key, strat) == [path |-> path_key[2], strategy |-> strat]

\* the three keys probed wildcard first, then exact, then default
path_keys_wildcard_first(path, self) ==
    << _wildcard_path_loader_key(path, self),
       _loader_key(path, self),
       _default_path_loader_key(self) >>

\* the three keys in the order the loop probes them
path_keys(path, self) ==
    << _loader_key(path, self),
       _wildcard_path_loader_key(path, self),
       _default_path_loader_key(self) >>

\* the loop as its commented-out lines would have it: an option that names
\* no strategy does not end the search
RECURSIVE FirstPresent_actionable(_, _, _)
FirstPresent_actionable(attrs, keys, i) ==
    IF i > Len(keys) THEN <<>>
    ELSE IF keys[i] \in DOMAIN attrs /\ attrs[keys[i]].strategy # <<>>
    THEN <<attrs[keys[i]]>>
    ELSE FirstPresent_actionable(attrs, keys, i + 1)

\* the keys _get_context_loader probes for property self along path
OwnKeys(path, self) == { path_keys(path, self)[i] : i \in 1..3 }

\* for path_key in (...): if path_key in context.attributes: load = ...; break
RECURSIVE FirstPresent(_, _, _)
FirstPresent(attrs, keys, i) ==
    IF i > Len(keys) THEN <<>>
    ELSE IF keys[i] \in DOMAIN attrs THEN <<attrs[keys[i]]>>
    ELSE FirstPresent(attrs, keys, i + 1)

\* self._get_context_loader(context, path): <<>> for None, else <<load>>
_get_context_loader(attrs, path, self) ==
    FirstPresent(attrs, path_keys(path, self), 1)

-----------------------------------------------------------------------------
(* LoaderOption: the compile state is the context's attributes; the option *)
(* is the load option for path_key with strategy strat.                    *)

\* the replaced entities handed to process_compile_state_replaced_entities
MapperEntities == { <<>>, <<"User">> }

\* option.process_compile_state(compile_state) of a load option: attaches the
\* option to the compile state under its path key
process_compile_state(attrs, path_key, strat) ==
    (path_key :> LoadOption(path_key, strat)) @@ attrs

\* a re-dispatch that leaves the compile state alone when entities were replaced
process_compile_state_replaced_entities_skip(attrs, mapper_entities, path_key, strat) ==
    IF mapper_entities = <<>>
    THEN [compile_state |-> process_compile_state(attrs, path_key, strat),
          invoked |-> << [method |-> "process_compile_state",
                          compile_state |-> attrs] >>]
    ELSE [compile_state |-> attrs, invoked |-> <<>>]

\* LoaderOption.process_compile_state_replaced_entities(compile_state,
\* mapper_entities): the compile state after it and the calls it made
process_compile_state_replaced_entities(attrs, mapper_entities, path_key, strat) ==
    [compile_state |-> process_compile_state(attrs, path_key, strat),
     invoked |-> << [method |-> "process_compile_state",
                     compile_state |-> attrs] >>]

-----------------------------------------------------------------------------
(* setup() and create_row_processor()                                      *)

\* what one dispatch did: the option found, the strategy chosen, the cache and
\* the objects after it, the exception raised, the strategy methods invoked
Dispatched(loader, got, method) ==
    [loader |-> loader,
     strat |-> got.returned,
     _strategies |-> got._strategies,
     instances |-> got.instances,
     raised |-> got.raised,
     invoked |-> IF got.raised # <<>> THEN <<>>
                 ELSE << [strategy |-> got.returned, method |-> method,
                          loadopt |-> loader] >>]

\* a setup that answers a failed lookup with the default strategy
setup_fallback(attrs, cache, heap, reg, default, path, self) ==
    LET loader == _get_context_loader(attrs, path, self)
        keep == [returned |-> default, _strategies |-> cache,
                 instances |-> heap, raised |-> <<>>]
        got == IF loader # <<>> /\ loader[1].strategy # <<>>
               THEN _get_strategy(cache, heap, reg, self, loader[1].strategy)
               ELSE keep
    IN  Dispatched(loader, IF got.raised # <<>> THEN keep ELSE got, "setup_query")

\* a setup that builds a strategy for strategy_key when no option names one
setup_construct_default(attrs, cache, heap, reg, default, path, self) ==
    LET loader == _get_context_loader(attrs, path, self)
    IN  Dispatched(
            loader,
            IF loader # <<>> /\ loader[1].strategy # <<>>
            THEN _get_strategy(cache, heap, reg, self, loader[1].strategy)
            ELSE _get_strategy_uncached(cache, heap, reg, self, strategy_key(self)),
            "setup_query")

\* a setup that resolves the strategy the option names and then invokes
\* setup_query on the default strategy
setup_on_default(attrs, cache, heap, reg, default, path, self) ==
    LET loader == _get_context_loader(attrs, path, self)
        r == Dispatched(
                 loader,
                 IF loader # <<>> /\ loader[1].strategy # <<>>
                 THEN _get_strategy(cache, heap, reg, self, loader[1].strategy)
                 ELSE [returned |-> default, _strategies |-> cache,
                       instances |-> heap, raised |-> <<>>],
                 "setup_query")
    IN  [r EXCEPT !.invoked =
            IF r.raised # <<>> THEN <<>>
            ELSE << [strategy |-> default, method |-> "setup_query",
                     loadopt |-> r.loader] >>]

\* a setup that keeps in the cache only the strategy it resolved
setup_single_entry(attrs, cache, heap, reg, default, path, self) ==
    LET loader == _get_context_loader(attrs, path, self)
        got == IF loader # <<>> /\ loader[1].strategy # <<>>
               THEN _get_strategy(cache, heap, reg, self, loader[1].strategy)
               ELSE [returned |-> default, _strategies |-> cache,
                     instances |-> heap, raised |-> <<>>]
    IN  Dispatched(
            loader,
            IF got.raised = <<>> /\ loader # <<>> /\ loader[1].strategy # <<>>
            THEN [got EXCEPT !._strategies = (loader[1].strategy :> got.returned)]
            ELSE got,
            "setup_query")

\* StrategizedProperty.setup(context, query_entity, path, adapter)
setup(attrs, cache, heap, reg, default, path, self) ==
    LET loader == _get_context_loader(attrs, path, self)
    IN  Dispatched(
            loader,
            IF loader # <<>> /\ loader[1].strategy # <<>>
            THEN _get_strategy(cache, heap, reg, self, loader[1].strategy)
            ELSE [returned |-> default, _strategies |-> cache,
                  instances |-> heap, raised |-> <<>>],
            "setup_query")

\* a create_row_processor that never reads the load option's strategy
create_row_processor_default(attrs, cache, heap, reg, default, path, self) ==
    Dispatched(
        _get_context_loader(attrs, path, self),
        [returned |-> default, _strategies |-> cache,
         instances |-> heap, raised |-> <<>>],
        "create_row_processor")

\* StrategizedProperty.create_row_processor(context, query_entity, path, ...)
create_row_processor(attrs, cache, heap, reg, default, path, self) ==
    LET loader == _get_context_loader(attrs, path, self)
    IN  Dispatched(
            loader,
            IF loader # <<>> /\ loader[1].strategy # <<>>
            THEN _get_strategy(cache, heap, reg, self, loader[1].strategy)
            ELSE [returned |-> default, _strategies |-> cache,
                  instances |-> heap, raised |-> <<>>],
            "create_row_processor")

-----------------------------------------------------------------------------
(* The state machine.                                                      *)

\* the record of the last call
Called(op, prop, cls, strategy_cls, path, key, loader, strat, raised, invoked) ==
    [op |-> op, prop |-> prop, cls |-> cls, strategy_cls |-> strategy_cls,
     path |-> path, key |-> key, loader |-> loader, strat |-> strat,
     raised |-> raised, invoked |-> invoked]

\* how many times strategy_for has been applied
Registrations ==
    LET RECURSIVE Sum(_)
        Sum(S) == IF S = {} THEN 0
                  ELSE LET c == CHOOSE x \in S : TRUE
                       IN  Len(_strategy_keys[c].keys) + Sum(S \ {c})
    IN  Sum(StrategyClasses)

\* a thread that is not inside _get_strategy
IdleThread ==
    [pc |-> "idle", self |-> "None", key |-> <<>>, cls |-> NoClass,
     strategy |-> 0, raised |-> <<>>]

Init ==
    /\ _all_strategies = <<>>
    /\ _strategy_keys = [c \in StrategyClasses |-> [own |-> FALSE, keys |-> <<>>]]
    /\ _configure_started = [p \in Props |-> FALSE]
    /\ _configure_finished = [p \in Props |-> FALSE]
    /\ _strategies = [p \in Props |-> <<>>]
    /\ strategy = [p \in Props |-> 0]
    /\ instances = <<>>
    /\ attributes = <<>>
    /\ last = Called("none", "None", NoClass, NoClass, <<>>, <<>>, <<>>, 0, <<>>, <<>>)
    /\ threads = [t \in Threads |-> IdleThread]
    /\ non_primary = [p \in Props |-> FALSE]
    /\ class_manager = [m \in Mappers |-> [p \in Props |-> <<>>]]

\* @StrategizedProperty.strategy_for(**kw) applied to dec_cls, called on cls
StrategyFor(cls, kw, dec_cls) ==
    /\ Registrations < MaxRegistrations
    /\ _all_strategies' = strategy_for(_all_strategies, cls, kw, dec_cls)
    /\ _strategy_keys' = strategy_for_keys(_strategy_keys, kw, dec_cls)
    /\ last' = Called("strategy_for", "None", cls, dec_cls, <<>>, kw,
                      <<>>, 0, <<>>, <<>>)
    /\ UNCHANGED <<aside, _configure_started, _configure_finished, _strategies,
                   strategy, instances, attributes>>

\* self.init()
PropInit(self) ==
    LET r == init(_strategies[self], instances, _all_strategies, strategy[self],
                  _configure_finished[self], self)
    IN  /\ Len(r.instances) <= MaxInstances
        /\ _configure_started' = [_configure_started EXCEPT ![self] = r._configure_started]
        /\ _configure_finished' = [_configure_finished EXCEPT ![self] = r._configure_finished]
        /\ _strategies' = [_strategies EXCEPT ![self] = r._strategies]
        /\ strategy' = [strategy EXCEPT ![self] = r.strategy]
        /\ instances' = r.instances
        /\ last' = Called("init", self, PropClass(self), NoClass, <<>>, strategy_key(self),
                          <<>>, r.strategy, r.raised, <<>>)
        /\ UNCHANGED <<aside, _all_strategies, _strategy_keys, attributes>>

\* self._get_strategy(key), called on a configured property
GetStrategy(self, key) ==
    LET r == _get_strategy(_strategies[self], instances, _all_strategies, self, key)
    IN  /\ _configure_finished[self]
        /\ Len(r.instances) <= MaxInstances
        /\ _strategies' = [_strategies EXCEPT ![self] = r._strategies]
        /\ instances' = r.instances
        /\ last' = Called("_get_strategy", self, PropClass(self), NoClass, <<>>, key,
                          <<>>, r.returned, r.raised, <<>>)
        /\ UNCHANGED <<aside, _all_strategies, _strategy_keys, _configure_started,
                       _configure_finished, strategy, attributes>>

\* a new compile context, with no load options yet
NewContext ==
    /\ attributes # <<>>
    /\ attributes' = <<>>
    /\ last' = Called("context", "None", NoClass, NoClass, <<>>, <<>>, <<>>, 0, <<>>, <<>>)
    /\ UNCHANGED <<aside, _all_strategies, _strategy_keys, _configure_started,
                   _configure_finished, _strategies, strategy, instances>>

\* a load option is attached to the compile context under path_key
AddOption(path_key, strat) ==
    /\ Cardinality(DOMAIN attributes \cup {path_key}) <= MaxOptions
    /\ attributes' = (path_key :> LoadOption(path_key, strat)) @@ attributes
    /\ last' = Called("context", "None", NoClass, NoClass, <<>>, <<>>, <<>>, 0, <<>>, <<>>)
    /\ UNCHANGED <<aside, _all_strategies, _strategy_keys, _configure_started,
                   _configure_finished, _strategies, strategy, instances>>

\* cls._strategy_lookup(requesting_property, *key), cls the property's class
StrategyLookup(self, key) ==
    LET r == _strategy_lookup(_all_strategies, PropClass(self), self, key)
    IN  /\ last' = Called("_strategy_lookup", self, PropClass(self), r.returned, <<>>, key,
                          <<>>, 0, r.raised, <<>>)
        /\ UNCHANGED <<aside, _all_strategies, _strategy_keys, _configure_started,
                       _configure_finished, _strategies, strategy, instances,
                       attributes>>

\* self._get_context_loader(context, path)
GetContextLoader(self, path) ==
    /\ last' = Called("_get_context_loader", self, PropClass(self), NoClass, path, <<>>,
                      _get_context_loader(attributes, path, self), 0, <<>>, <<>>)
    /\ UNCHANGED <<aside, _all_strategies, _strategy_keys, _configure_started,
                   _configure_finished, _strategies, strategy, instances,
                   attributes>>

\* self.setup(context, query_entity, path, adapter), phase 1 of a query
Setup(self, path) ==
    LET r == setup(attributes, _strategies[self], instances, _all_strategies,
                   strategy[self], path, self)
    IN  /\ _configure_finished[self]
        /\ Len(r.instances) <= MaxInstances
        /\ _strategies' = [_strategies EXCEPT ![self] = r._strategies]
        /\ instances' = r.instances
        /\ last' = Called("setup", self, PropClass(self), NoClass, path, <<>>,
                          r.loader, r.strat, r.raised, r.invoked)
        /\ UNCHANGED <<aside, _all_strategies, _strategy_keys, _configure_started,
                       _configure_finished, strategy, attributes>>

\* self.create_row_processor(context, query_entity, path, ...), phase 2
CreateRowProcessor(self, path) ==
    LET r == create_row_processor(attributes, _strategies[self], instances,
                                  _all_strategies, strategy[self], path, self)
    IN  /\ _configure_finished[self]
        /\ Len(r.instances) <= MaxInstances
        /\ _strategies' = [_strategies EXCEPT ![self] = r._strategies]
        /\ instances' = r.instances
        /\ last' = Called("create_row_processor", self, PropClass(self), NoClass, path, <<>>,
                          r.loader, r.strat, r.raised, r.invoked)
        /\ UNCHANGED <<aside, _all_strategies, _strategy_keys, _configure_started,
                       _configure_finished, strategy, attributes>>

\* option.process_compile_state_replaced_entities(compile_state, mapper_entities)
ProcessCompileStateReplacedEntities(path_key, strat, mapper_entities) ==
    LET r == process_compile_state_replaced_entities(
                 attributes, mapper_entities, path_key, strat)
    IN  /\ Cardinality(DOMAIN attributes \cup {path_key}) <= MaxOptions
        /\ attributes' = r.compile_state
        /\ last' = Called("process_compile_state_replaced_entities", "None",
                          NoClass, NoClass, <<>>, <<>>,
                          <<LoadOption(path_key, strat)>>, 0, <<>>, r.invoked)
                    @@ [path_key |-> path_key, mapper_entities |-> mapper_entities]
        /\ UNCHANGED <<aside, _all_strategies, _strategy_keys, _configure_started,
                       _configure_finished, _strategies, strategy, instances>>

\* self.post_instrument_class(mapper), called by the mapper after self.init()
PostInstrumentClass(self, mapper) ==
    LET r == post_instrument_class(non_primary, instances, class_manager,
                                   strategy[self], mapper, self)
    IN  /\ _configure_finished[self]
        /\ instances' = r.instances
        /\ class_manager' = r.class_manager
        /\ last' = Called("post_instrument_class", self, PropClass(self), NoClass,
                          <<>>, <<>>, <<>>, strategy[self], <<>>, r.invoked)
                    @@ [mapper |-> mapper]
        /\ UNCHANGED <<_all_strategies, _strategy_keys, _configure_started,
                       _configure_finished, _strategies, strategy,
                       attributes, threads, non_primary>>

\* _get_strategy(key) entered by thread t: the try block reads the cache; a
\* hit returns at once, a miss goes on to the lookup
ThreadGetStrategy(t, self, key) ==
    LET hit == cache_probe(_strategies[self], key)
    IN  /\ threads[t].pc \in {"idle", "returned"}
        /\ _configure_finished[self]
        /\ threads' = [threads EXCEPT ![t] =
              [pc |-> IF hit # 0 THEN "returned" ELSE "lookup",
               self |-> self, key |-> key, cls |-> NoClass,
               strategy |-> hit, raised |-> <<>>]]
        /\ UNCHANGED <<_all_strategies, _strategy_keys, _configure_started,
                       _configure_finished, _strategies, strategy, instances,
                       attributes, last, non_primary, class_manager>>

\* cls = self._strategy_lookup(self, *key), by thread t after its miss
ThreadLookup(t) ==
    LET my == threads[t]
        r == _strategy_lookup(_all_strategies, PropClass(my.self), my.self, my.key)
    IN  /\ my.pc = "lookup"
        /\ threads' = [threads EXCEPT ![t] =
              [my EXCEPT !.pc = IF r.raised # <<>> THEN "returned" ELSE "construct",
                         !.cls = r.returned,
                         !.raised = r.raised]]
        /\ UNCHANGED <<_all_strategies, _strategy_keys, _configure_started,
                       _configure_finished, _strategies, strategy, instances,
                       attributes, last, non_primary, class_manager>>

\* cls(self, key): thread t constructs the strategy object (a thread
\* constructs only after a miss, so the threads construct finitely often)
ThreadConstruct(t) ==
    LET my == threads[t]
    IN  /\ my.pc = "construct"
        /\ instances' = Append(instances, LoaderStrategy(my.cls, my.self, my.key))
        /\ threads' = [threads EXCEPT ![t] =
              [my EXCEPT !.pc = "store", !.strategy = Len(instances) + 1]]
        /\ UNCHANGED <<_all_strategies, _strategy_keys, _configure_started,
                       _configure_finished, _strategies, strategy,
                       attributes, last, non_primary, class_manager>>

\* self._strategies[key] = strategy, then return strategy, by thread t
ThreadStore(t) ==
    LET my == threads[t]
    IN  /\ my.pc = "store"
        /\ _strategies' = [_strategies EXCEPT ![my.self] =
              cache_store(_strategies[my.self], my.key, my.strategy)]
        /\ threads' = [threads EXCEPT ![t] = [my EXCEPT !.pc = "returned"]]
        /\ UNCHANGED <<_all_strategies, _strategy_keys, _configure_started,
                       _configure_finished, strategy, instances,
                       attributes, last, non_primary, class_manager>>

-----------------------------------------------------------------------------
(* The specifications.  Spec is the whole machine, driven by the           *)
(* registrations a library makes (a fixed list, one strategy class) and    *)
(* by load options for the relationship at the root path.  SpecRegistry is *)
(* strategy_for and _strategy_lookup under every registration input;       *)
(* SpecLoader is _get_context_loader under every context.                  *)

\* the strategy class the registrations of Spec decorate
LibraryStrategy == "LoaderA"

\* the path of the queries of Spec: the properties of the root entity
RootPath == <<"User">>

\* the keys the contexts of Spec hold options under: the relationship's
\* exact key and the wildcard key of its category
RootKeys ==
    { _loader_key(RootPath, "addresses"),
      _wildcard_path_loader_key(RootPath, "addresses") }

\* the registrations of Spec: the owner class and the keyword arguments
LibraryRegistrations ==
    { <<"RelationshipProperty", LazySelect>>,
      <<"RelationshipProperty", DeferredInstrument>>,
      <<"ColumnProperty", DeferredInstrument>>,
      <<"ColumnProperty", InstrumentDeferred>> }

Next ==
    \/ \E r \in LibraryRegistrations : StrategyFor(r[1], r[2], LibraryStrategy)
    \/ \E self \in Props : PropInit(self)
    \/ \E self \in Props, key \in KeyInputs : GetStrategy(self, key)
    \/ NewContext
    \/ \E path_key \in RootKeys, strat \in OptionStrategies :
          AddOption(path_key, strat)
    \/ \E self \in Props : Setup(self, RootPath)
    \/ \E self \in Props : CreateRowProcessor(self, RootPath)

Spec == Init /\ [][Next]_vars

NextRegistry ==
    \/ \E cls \in OwnerClasses, kw \in KwInputs, dec_cls \in StrategyClasses :
          StrategyFor(cls, kw, dec_cls)
    \/ \E self \in Props, key \in KeyInputs : StrategyLookup(self, key)

SpecRegistry == Init /\ [][NextRegistry]_vars

NextLoader ==
    \/ NewContext
    \/ \E path_key \in ContextKeys, strat \in OptionStrategies :
          AddOption(path_key, strat)
    \/ \E self \in Props, path \in ParentPaths : GetContextLoader(self, path)

SpecLoader == Init /\ [][NextLoader]_vars

\* the registry once the library modules are imported
ConfiguredRegistry ==
    strategy_for(
        strategy_for(
            strategy_for(<<>>, "RelationshipProperty", LazySelect, "LoaderA"),
            "RelationshipProperty", DeferredInstrument, "LoaderB"),
        "ColumnProperty", DeferredInstrument, "LoaderA")

\* _strategy_keys of the strategy classes after the same registrations
ConfiguredStrategyKeys ==
    strategy_for_keys(
        strategy_for_keys(
            strategy_for_keys(
                [c \in StrategyClasses |-> [own |-> FALSE, keys |-> <<>>]],
                LazySelect, "LoaderA"),
            DeferredInstrument, "LoaderB"),
        DeferredInstrument, "LoaderA")

\* the mapping after its configuration phase: the registrations are made and
\* init() has run once on every property, the relationship first
ConfiguredMapping ==
    LET first == init(<<>>, <<>>, ConfiguredRegistry, 0, FALSE, "addresses")
        second == init(<<>>, first.instances, ConfiguredRegistry, 0, FALSE, "name")
    IN  /\ _all_strategies = ConfiguredRegistry
        /\ _strategy_keys = ConfiguredStrategyKeys
        /\ _configure_started =
              [p \in Props |-> IF p = "addresses" THEN first._configure_started
                               ELSE second._configure_started]
        /\ _configure_finished =
              [p \in Props |-> IF p = "addresses" THEN first._configure_finished
                               ELSE second._configure_finished]
        /\ _strategies =
              [p \in Props |-> IF p = "addresses" THEN first._strategies
                               ELSE second._strategies]
        /\ strategy =
              [p \in Props |-> IF p = "addresses" THEN first.strategy
                               ELSE second.strategy]
        /\ instances = second.instances
        /\ attributes = <<>>
        /\ last = Called("init", "name", PropClass("name"), NoClass, <<>>,
                         strategy_key("name"), <<>>, second.strategy, <<>>, <<>>)

\* query time: the mapping is configured, its mappers are primary and no
\* thread is inside _get_strategy
InitConfigured ==
    /\ ConfiguredMapping
    /\ threads = [t \in Threads |-> IdleThread]
    /\ non_primary = [p \in Props |-> FALSE]
    /\ class_manager = [m \in Mappers |-> [p \in Props |-> <<>>]]

\* query time: the threads call _get_strategy on the configured mapping
NextThreads ==
    \/ \E t \in Threads, self \in Props, key \in KeyInputs :
          ThreadGetStrategy(t, self, key)
    \/ \E t \in Threads : ThreadLookup(t)
    \/ \E t \in Threads : ThreadConstruct(t)
    \/ \E t \in Threads : ThreadStore(t)

SpecThreads == InitConfigured /\ [][NextThreads]_vars

\* the keys of both properties at the root path
RootContextKeys == OwnKeys(RootPath, "addresses") \cup OwnKeys(RootPath, "name")

\* load options applied to the compile state of a query, directly and after
\* its entities were replaced
NextOptions ==
    \/ NewContext
    \/ \E path_key \in RootContextKeys, strat \in OptionStrategies :
          AddOption(path_key, strat)
    \/ \E path_key \in RootContextKeys, strat \in OptionStrategies,
           mapper_entities \in MapperEntities :
          ProcessCompileStateReplacedEntities(path_key, strat, mapper_entities)

SpecOptions == Init /\ [][NextOptions]_vars

\* instrumentation: init() has run; a property's parent mapper is primary or
\* not, and a mapped class may have an implementation for a key already (0)
InitInstrument ==
    /\ ConfiguredMapping
    /\ threads = [t \in Threads |-> IdleThread]
    /\ non_primary \in [Props -> BOOLEAN]
    /\ class_manager \in [Mappers -> [Props -> {<<>>, <<0>>}]]

NextInstrument ==
    \/ \E self \in Props, mapper \in Mappers : PostInstrumentClass(self, mapper)
    \/ \E self \in Props : PropInit(self)

SpecInstrument == InitInstrument /\ [][NextInstrument]_vars

-----------------------------------------------------------------------------
(* What the claims read off a state.                                       *)

\* the calls made while a query is compiled and its rows are loaded
QueryOps == {"setup", "create_row_processor", "_get_strategy"}

\* the strategy key the last call asked _get_strategy for (<<>>: none)
RequestedKey ==
    IF last.op \in {"_get_strategy", "init", "_strategy_lookup"} THEN last.key
    ELSE IF last.loader # <<>> THEN last.loader[1].strategy
    ELSE <<>>

\* the classes of cls's MRO whose registry holds key
MroOwners(cls, key) ==
    { i \in 1..Len(Mro(cls)) :
        /\ HasRegistry(_all_strategies, Mro(cls)[i])
        /\ key \in DOMAIN RegistryOf(_all_strategies, Mro(cls)[i]) }

\* the positions of path_keys(path, self) that context.attributes holds
TiersPresent(path, self) ==
    { i \in 1..3 : path_keys(path, self)[i] \in DOMAIN attributes }

\* no option at any tier, or the option of the first tier present names no strategy
NoActionableOption(path, self) ==
    \/ TiersPresent(path, self) = {}
    \/ \E i \in TiersPresent(path, self) :
          /\ \A j \in TiersPresent(path, self) : i <= j
          /\ attributes[path_keys(path, self)[i]].strategy = <<>>

\* what create_row_processor(path) on property self would do in this state
Phase2(path, self) ==
    create_row_processor(attributes, _strategies[self], instances,
                         _all_strategies, strategy[self], path, self)

\* the registrations a registry holds: <<owner class, key, strategy class>>
RegistrationsOf(reg) ==
    UNION { { <<reg[i].cls, k, reg[i].strats[k]>> : k \in DOMAIN reg[i].strats }
            : i \in 1..Len(reg) }

\* every order in which the registrations of the set S can be applied
OrdersOf(S) ==
    { seq \in [1..Cardinality(S) -> S] :
        \A i, j \in 1..Cardinality(S) : seq[i] = seq[j] => i = j }

\* the registry after strategy_for is applied in the order of seq
RECURSIVE Replay(_)
Replay(seq) ==
    IF Len(seq) = 0 THEN <<>>
    ELSE LET x == seq[Len(seq)]
         IN  strategy_for(Replay(SubSeq(seq, 1, Len(seq) - 1)), x[1], x[2], x[3])

\* the option pairs of a key, whatever their order
PairSet(key) == { key[i] : i \in 1..Len(key) }

\* the owner classes, of any hierarchy, whose registry holds key
AllOwners(key) ==
    { i \in 1..Len(_all_strategies) : key \in DOMAIN _all_strategies[i].strats }

-----------------------------------------------------------------------------
\* C1: over query-time calls (setup, create_row_processor, _get_strategy) a
\* cached strategy is never replaced: every entry of every property's cache
\* is still there, with the same instance, after the call, and a call for a
\* key that is cached returns the cached instance.
C1_MemoizationIsIdentityStable ==
    [][ last'.op \in QueryOps =>
          /\ \A p \in Props : \A k \in DOMAIN _strategies[p] :
                /\ k \in DOMAIN _strategies'[p]
                /\ _strategies'[p][k] = _strategies[p][k]
          /\ LET k == IF last'.op = "_get_strategy" THEN last'.key
                       ELSE IF last'.loader # <<>> THEN last'.loader[1].strategy
                       ELSE <<>>
             IN  /\ k \in DOMAIN _strategies[last'.prop] =>
                      /\ last'.raised = <<>>
                      /\ last'.strat = _strategies[last'.prop][k]
                 /\ (k # <<>> /\ last'.raised = <<>>) =>
                      /\ k \in DOMAIN _strategies'[last'.prop]
                      /\ last'.strat = _strategies'[last'.prop][k]
      ]_vars

\* C1 witness: setup() was handed an option naming the key of the default
\* strategy, which init() had cached, and resolved it to that very instance.
C1_Witness ==
    /\ last.op = "setup"
    /\ last.loader # <<>>
    /\ last.loader[1].strategy = strategy_key(last.prop)
    /\ last.raised = <<>>
    /\ last.strat = strategy[last.prop]
    /\ last.strat # 0

\* C2: _get_context_loader returns the option under the exact-path key when
\* that key is present, else the one under the wildcard key, else the one
\* under the default key, else None; options stored for other paths or other
\* property categories never decide.
C2_ExactBeatsWildcardBeatsDefault ==
    last.op = "_get_context_loader" =>
        LET exact == _loader_key(last.path, last.prop)
            wild == _wildcard_path_loader_key(last.path, last.prop)
            default == _default_path_loader_key(last.prop)
        IN  /\ exact \in DOMAIN attributes => last.loader = <<attributes[exact]>>
            /\ (exact \notin DOMAIN attributes /\ wild \in DOMAIN attributes)
                 => last.loader = <<attributes[wild]>>
            /\ ({exact, wild} \cap DOMAIN attributes = {}
                   /\ default \in DOMAIN attributes)
                 => last.loader = <<attributes[default]>>
            /\ {exact, wild, default} \cap DOMAIN attributes = {}
                 => last.loader = <<>>

\* C2 witness: an exact-path option exists for another path of the same
\* property, and the call for this path, which has a wildcard and a default
\* option, got the wildcard one.
C2_Witness ==
    /\ last.op = "_get_context_loader"
    /\ \E other \in ParentPaths \ {last.path} :
          _loader_key(other, last.prop) \in DOMAIN attributes
    /\ _loader_key(last.path, last.prop) \notin DOMAIN attributes
    /\ _wildcard_path_loader_key(last.path, last.prop) \in DOMAIN attributes
    /\ _default_path_loader_key(last.prop) \in DOMAIN attributes
    /\ last.loader =
          <<attributes[_wildcard_path_loader_key(last.path, last.prop)]>>

\* C3: a lookup whose key is held by the registry of some class of the
\* requesting property's MRO returns the class registered in the first such
\* registry: the base's registration serves a derived property that registers
\* nothing itself, and the derived class's own registration wins over it.
C3_LookupFollowsMro ==
    last.op = "_strategy_lookup" =>
        LET owners == MroOwners(last.cls, last.key)
        IN  owners # {} =>
              LET first == CHOOSE i \in owners : \A j \in owners : i <= j
              IN  /\ last.raised = <<>>
                  /\ last.strategy_cls =
                       RegistryOf(_all_strategies, Mro(last.cls)[first])[last.key]

\* C3 witness: the derived class and its base both registered the key, with
\* different strategy classes, and the lookup from the derived property
\* returned the derived class's.
C3_Witness ==
    /\ last.op = "_strategy_lookup"
    /\ last.cls = "DerivedRelationship"
    /\ MroOwners(last.cls, last.key) = {1, 2}
    /\ RegistryOf(_all_strategies, "DerivedRelationship")[last.key]
         # RegistryOf(_all_strategies, "RelationshipProperty")[last.key]
    /\ last.strategy_cls =
         RegistryOf(_all_strategies, "DerivedRelationship")[last.key]

\* C4: a lookup returns a strategy class only if the key is registered for a
\* class of the requesting property's MRO; when it is registered for no such
\* class (only for an unrelated owner, or nowhere) the lookup raises and
\* returns nothing.
C4_SiblingRegistrationNeverMatches ==
    last.op = "_strategy_lookup" =>
        /\ MroOwners(last.cls, last.key) = {} =>
              (last.raised # <<>> /\ last.strategy_cls = NoClass)
        /\ last.raised = <<>> =>
              (MroOwners(last.cls, last.key) # {} /\ last.strategy_cls # NoClass)

\* C4 witness: the key is registered, but only for a class outside the
\* requesting property's MRO, and the lookup raised.
C4_Witness ==
    /\ last.op = "_strategy_lookup"
    /\ MroOwners(last.cls, last.key) = {}
    /\ AllOwners(last.key) # {}
    /\ last.raised # <<>>

\* C5: the exception of a failed lookup carries the requesting class, the
\* requesting property and the key; its intended property type is an owner
\* class whose registry holds the key, with the strategy class registered
\* there, when there is such an owner, and both are None exactly when no
\* registry holds the key.
C5_ExceptionNamesTheOwner ==
    (last.op = "_strategy_lookup" /\ last.raised # <<>>) =>
        LET e == last.raised[1]
        IN  /\ e.cls = PropClass(last.prop)
            /\ e.requesting_property = last.prop
            /\ e.key = last.key
            /\ AllOwners(last.key) # {} =>
                  \E i \in AllOwners(last.key) :
                      /\ e.intended_property_type = _all_strategies[i].cls
                      /\ e.actual_strategy = _all_strategies[i].strats[last.key]
            /\ AllOwners(last.key) = {} <=>
                  (e.intended_property_type = NoClass /\ e.actual_strategy = NoClass)

\* C5 witness: the relationship property asked for a key only the column
\* property class registered, and the exception names that class.
C5_Witness ==
    /\ last.op = "_strategy_lookup"
    /\ last.prop = "addresses"
    /\ last.raised # <<>>
    /\ last.raised[1].intended_property_type = "ColumnProperty"
    /\ last.raised[1].actual_strategy # NoClass

\* C6: when the first option found for the path names a key that no class of
\* the property's MRO registered, setup() and create_row_processor() raise
\* LoaderStrategyException for that key and invoke no strategy at all, the
\* default strategy included.
C6_FailedLookupIsFatal ==
    ( /\ last.op \in {"setup", "create_row_processor"}
      /\ last.loader # <<>>
      /\ RequestedKey # <<>>
      /\ MroOwners(last.cls, RequestedKey) = {} ) =>
        /\ last.raised # <<>>
        /\ last.raised[1].key = RequestedKey
        /\ last.invoked = <<>>
        /\ last.strat = 0

\* C6 witness: create_row_processor() on a configured property found an
\* option naming an unregistered key and raised.
C6_Witness ==
    /\ last.op = "create_row_processor"
    /\ last.loader # <<>>
    /\ RequestedKey # <<>>
    /\ MroOwners(last.cls, RequestedKey) = {}
    /\ strategy[last.prop] # 0
    /\ last.raised # <<>>

\* C7: strategy_for files a registration under the sorted tuple of its
\* option pairs, whatever order they were given in: after a registration the
\* owner's registry maps the sorted key to the decorated class and holds no
\* other key with the same pairs, and no registry ever holds two keys with
\* the same pairs.
C7_RegistrationIgnoresPairOrder ==
    /\ \A i \in 1..Len(_all_strategies) :
          \A k1, k2 \in DOMAIN _all_strategies[i].strats :
              PairSet(k1) = PairSet(k2) => k1 = k2
    /\ last.op = "strategy_for" =>
          LET strats == RegistryOf(_all_strategies, last.cls)
          IN  /\ sorted(last.key) \in DOMAIN strats
              /\ strats[sorted(last.key)] = last.strategy_cls
              /\ \A k \in DOMAIN strats :
                    PairSet(k) = PairSet(last.key) => k = sorted(last.key)

\* C7 witness: one owner class was registered twice with the same two pairs,
\* the last time in unsorted order, and its registry holds one key.
C7_Witness ==
    /\ last.op = "strategy_for"
    /\ last.key = InstrumentDeferred
    /\ Registrations = 2
    /\ Len(_all_strategies) = 1
    /\ DOMAIN _all_strategies[1].strats = {DeferredInstrument}

\* C8 as stated: whenever the sorted form of the key handed to _get_strategy
\* is cached on the property, the call returns that cached instance.
C8_ResolutionIgnoresPairOrder ==
    ( /\ last.op = "_get_strategy"
      /\ sorted(last.key) \in DOMAIN _strategies[last.prop] ) =>
        /\ last.raised = <<>>
        /\ last.strat = _strategies[last.prop][sorted(last.key)]

\* C8 amended: _get_strategy and _strategy_lookup compare the key as given.
\* Every key in a registry or a cache is sorted, because strategy_for sorts;
\* a successful _get_strategy(key) returns the instance cached under exactly
\* that tuple, and a key whose pairs are not in sorted order raises
\* LoaderStrategyException, even while the same pairs in sorted order are
\* registered and cached.
C8_KeysAreComparedAsGiven ==
    /\ \A p \in Props : \A k \in DOMAIN _strategies[p] : k = sorted(k)
    /\ \A i \in 1..Len(_all_strategies) :
          \A k \in DOMAIN _all_strategies[i].strats : k = sorted(k)
    /\ last.op = "_get_strategy" =>
          /\ last.key # sorted(last.key) =>
                /\ last.raised # <<>>
                /\ last.raised[1].key = last.key
                /\ last.strat = 0
          /\ last.raised = <<>> =>
                /\ last.key \in DOMAIN _strategies[last.prop]
                /\ last.strat = _strategies[last.prop][last.key]

\* C8 witness: the pairs are cached in sorted order, and _get_strategy with
\* the same pairs in the other order raised.
C8_Witness ==
    /\ last.op = "_get_strategy"
    /\ last.key # sorted(last.key)
    /\ sorted(last.key) \in DOMAIN _strategies[last.prop]
    /\ last.raised # <<>>

\* C9: no step takes _configure_started or _configure_finished of a
\* property from true back to false.
C9_ConfigureFlagsNeverRegress ==
    [][ \A p \in Props :
          /\ _configure_started[p] => _configure_started'[p]
          /\ _configure_finished[p] => _configure_finished'[p] ]_vars

\* C9 witness: init() ran a second time on a property: its default strategy
\* is not the first default strategy constructed for it.
C9_Witness ==
    /\ last.op = "init"
    /\ _configure_started[last.prop]
    /\ _configure_finished[last.prop]
    /\ \E i \in 1..Len(instances) :
          /\ i < strategy[last.prop]
          /\ instances[i].parent_property = last.prop
          /\ instances[i].strategy_key = strategy_key(last.prop)

\* C10 as stated: init() on an already configured property leaves its
\* strategy cache and its default strategy as they were.
C10_SecondInitChangesNothing ==
    [][ (last'.op = "init" /\ _configure_finished[last'.prop]) =>
          /\ _strategies'[last'.prop] = _strategies[last'.prop]
          /\ strategy'[last'.prop] = strategy[last'.prop] ]_vars

\* C10 amended: init() has no guard.  On an already configured property it
\* runs do_init again: the cache is replaced by one that holds only the
\* default key, the default strategy becomes a newly constructed instance,
\* and both flags stay true.
C10_SecondInitRebuilds ==
    [][ (last'.op = "init" /\ _configure_finished[last'.prop]) =>
          LET p == last'.prop
          IN  /\ last'.raised = <<>>
              /\ _configure_started'[p] /\ _configure_finished'[p]
              /\ Len(instances') = Len(instances) + 1
              /\ strategy'[p] = Len(instances')
              /\ strategy'[p] # strategy[p]
              /\ instances'[strategy'[p]].parent_property = p
              /\ instances'[strategy'[p]].strategy_key = strategy_key(p)
              /\ DOMAIN _strategies'[p] = {strategy_key(p)}
              /\ _strategies'[p][strategy_key(p)] = strategy'[p] ]_vars

\* C10 witness: a second init() dropped a cached strategy of another key:
\* the property once constructed one, and its cache holds the default only.
C10_Witness ==
    /\ last.op = "init"
    /\ _configure_finished[last.prop]
    /\ DOMAIN _strategies[last.prop] = {strategy_key(last.prop)}
    /\ \E i \in 1..Len(instances) :
          /\ instances[i].parent_property = last.prop
          /\ instances[i].strategy_key # strategy_key(last.prop)

\* C11 as stated: with threads calling _get_strategy concurrently on a
\* configured mapping, at most one strategy object is ever constructed for a
\* (property, key) pair, and all callers of the same property and key that
\* have returned hold the same object.
C11_NoDuplicateUnderConcurrency ==
    /\ \A i, j \in 1..Len(instances) :
          ( /\ instances[i].parent_property = instances[j].parent_property
            /\ instances[i].strategy_key = instances[j].strategy_key ) => i = j
    /\ \A t1, t2 \in Threads :
          ( /\ threads[t1].pc = "returned" /\ threads[t1].raised = <<>>
            /\ threads[t2].pc = "returned" /\ threads[t2].raised = <<>>
            /\ threads[t1].self = threads[t2].self
            /\ threads[t1].key = threads[t2].key )
          => threads[t1].strategy = threads[t2].strategy

\* C12: no step of a thread removes a cache entry, an entry changes only in
\* the store of a thread that is inserting that same key, so the insert of
\* an unseen key K2 leaves every entry K1 # K2 as it was; and a thread that
\* enters _get_strategy for a cached key returns the cached instance at once,
\* whatever the other threads are in the middle of.
C12_LazyInsertKeepsOtherEntries ==
    [][ /\ \A p \in Props : \A k \in DOMAIN _strategies[p] :
              /\ k \in DOMAIN _strategies'[p]
              /\ _strategies'[p][k] # _strategies[p][k] =>
                    \E t \in Threads :
                        /\ threads[t].pc = "store"
                        /\ threads'[t].pc = "returned"
                        /\ threads[t].self = p
                        /\ threads[t].key = k
        /\ \A t \in Threads :
              ( /\ threads[t].pc \in {"idle", "returned"}
                /\ threads'[t] # threads[t]
                /\ threads'[t].key \in DOMAIN _strategies[threads'[t].self] )
              => /\ threads'[t].pc = "returned"
                 /\ threads'[t].raised = <<>>
                 /\ threads'[t].strategy =
                        _strategies[threads'[t].self][threads'[t].key]
      ]_vars

\* C12 witness: one thread has constructed the strategy of an unseen key and
\* is about to store it, and a reader of another key, cached by init() on the
\* same property, has returned the instance init() cached.
C12_Witness ==
    \E t1, t2 \in Threads :
        /\ threads[t1].pc = "store"
        /\ threads[t1].key \notin DOMAIN _strategies[threads[t1].self]
        /\ threads[t2].pc = "returned"
        /\ threads[t2].self = threads[t1].self
        /\ threads[t2].key # threads[t1].key
        /\ threads[t2].key \in DOMAIN _strategies[threads[t2].self]
        /\ threads[t2].strategy = strategy[threads[t2].self]
        /\ threads[t2].strategy = _strategies[threads[t2].self][threads[t2].key]

\* C13: when context.attributes holds no option for the path at any of the
\* three tiers, or the first option found names no strategy, setup() and
\* create_row_processor() invoke the strategy method of self.strategy, the
\* default that init() made, with the option found (or None); nothing is
\* raised, no strategy is constructed and no cache changes.
C13_NoOptionUsesDefault ==
    [][ ( /\ last'.op \in {"setup", "create_row_processor"}
          /\ NoActionableOption(last'.path, last'.prop) ) =>
            /\ last'.raised = <<>>
            /\ last'.strat = strategy[last'.prop]
            /\ last'.strat # 0
            /\ Len(last'.invoked) = 1
            /\ last'.invoked[1].strategy = strategy[last'.prop]
            /\ last'.invoked[1].loadopt = last'.loader
            /\ last'.invoked[1].method =
                  (IF last'.op = "setup" THEN "setup_query"
                   ELSE "create_row_processor")
            /\ _strategies' = _strategies
            /\ instances' = instances
            /\ strategy' = strategy
      ]_vars

\* C13 witness: create_row_processor found an option that names no strategy
\* and delegated to the default, while the property's cache also holds a
\* strategy of another key.
C13_Witness ==
    /\ last.op = "create_row_processor"
    /\ last.loader # <<>>
    /\ last.loader[1].strategy = <<>>
    /\ last.invoked # <<>>
    /\ last.invoked[1].strategy = strategy[last.prop]
    /\ Cardinality(DOMAIN _strategies[last.prop]) = 2

\* C14: with context.attributes unchanged, phase 2 repeats phase 1.  In the
\* state setup() leaves, create_row_processor() for the same property and
\* path delegates to the same strategy instance with the same load option
\* (or raises the same exception) and constructs nothing; in every state
\* where the strategy an option names is cached, create_row_processor()
\* delegates to the cached instance with that option; a
\* create_row_processor() that directly follows the setup() agrees with it;
\* and no query-time call changes the options, the default strategy or a
\* cached instance.
C14_PhasesAgree ==
    /\ [](last.op = "setup" =>
            Phase2(last.path, last.prop)
              = [loader |-> last.loader,
                 strat |-> last.strat,
                 _strategies |-> _strategies[last.prop],
                 instances |-> instances,
                 raised |-> last.raised,
                 invoked |-> IF last.raised # <<>> THEN <<>>
                             ELSE << [strategy |-> last.invoked[1].strategy,
                                      method |-> "create_row_processor",
                                      loadopt |-> last.invoked[1].loadopt] >>])
    /\ [](\A p \in Props :
            LET loader == _get_context_loader(attributes, RootPath, p)
            IN  ( /\ _configure_finished[p]
                  /\ loader # <<>>
                  /\ loader[1].strategy \in DOMAIN _strategies[p] ) =>
                    Phase2(RootPath, p).invoked =
                        << [strategy |-> _strategies[p][loader[1].strategy],
                            method |-> "create_row_processor",
                            loadopt |-> loader] >>)
    /\ [][ /\ ( /\ last.op = "setup"
                  /\ last'.op = "create_row_processor"
                  /\ last'.prop = last.prop
                  /\ last'.path = last.path ) =>
                    /\ last'.loader = last.loader
                    /\ last'.strat = last.strat
                    /\ last'.raised = last.raised
                    /\ instances' = instances
           /\ last'.op \in QueryOps =>
                 /\ attributes' = attributes
                 /\ strategy' = strategy
                 /\ \A p \in Props : \A k \in DOMAIN _strategies[p] :
                       /\ k \in DOMAIN _strategies'[p]
                       /\ _strategies'[p][k] = _strategies[p][k]
          ]_vars

\* C14 witness: create_row_processor delegated to a cached strategy that is
\* not the default, for a load option that names its key, and constructed
\* nothing (the strategy was built before the context gained its last option).
C14_Witness ==
    /\ last.op = "create_row_processor"
    /\ last.loader # <<>>
    /\ last.loader[1].strategy # <<>>
    /\ last.raised = <<>>
    /\ last.strat # strategy[last.prop]
    /\ last.invoked[1].strategy = last.strat
    /\ last.invoked[1].loadopt = last.loader
    /\ Cardinality(DOMAIN attributes) = 2

\* C15: post_instrument_class(mapper) invokes init_class_attribute(mapper),
\* once, on the property's default strategy exactly when the parent mapper
\* is not non-primary and the mapper's class manager has no implementation
\* for the property's key; otherwise it invokes nothing and changes nothing.
C15_InstrumentsOnlyPrimaryWithoutImpl ==
    [][ last'.op = "post_instrument_class" =>
          LET self == last'.prop
              mapper == last'.mapper
          IN  IF ~non_primary[self] /\ class_manager[mapper][self] = <<>>
              THEN last'.invoked = << [strategy |-> strategy[self],
                                       method |-> "init_class_attribute",
                                       mapper |-> mapper] >>
              ELSE /\ last'.invoked = <<>>
                   /\ UNCHANGED <<_all_strategies, _strategy_keys,
                                  _configure_started, _configure_finished,
                                  _strategies, strategy, instances, attributes,
                                  threads, non_primary, class_manager>>
      ]_vars

\* C15 witness: post_instrument_class invoked nothing for a property of a
\* non-primary mapper whose class has no implementation for its key, while
\* a property of a primary mapper has been instrumented by its strategy.
C15_Witness ==
    /\ last.op = "post_instrument_class"
    /\ last.invoked = <<>>
    /\ non_primary[last.prop]
    /\ class_manager[last.mapper][last.prop] = <<>>
    /\ \E q \in Props, m \in Mappers :
          /\ ~non_primary[q]
          /\ class_manager[m][q] = <<strategy[q]>>

C17_WildcardScopedToCategory ==
    /\ \A p, q \in Props :
          strategy_wildcard_key(p) # strategy_wildcard_key(q) =>
              /\ _wildcard_token(p) # _wildcard_token(q)
              /\ _default_path_loader_key(p) # _default_path_loader_key(q)
              /\ \A path \in ParentPaths :
                    /\ _wildcard_path_loader_key(path, q) \notin OwnKeys(path, p)
                    /\ _default_path_loader_key(q) \notin OwnKeys(path, p)
    /\ last.op \in {"setup", "create_row_processor"} =>
          LET held == OwnKeys(last.path, last.prop) \cap DOMAIN attributes
          IN  /\ last.loader # <<>> =>
                    \E k \in held : last.loader[1] = attributes[k]
              /\ held = {} =>
                    /\ last.loader = <<>>
                    /\ last.raised = <<>>
                    /\ last.strat = strategy[last.prop]
              /\ ( /\ _loader_key(last.path, last.prop) \notin DOMAIN attributes
                    /\ _wildcard_path_loader_key(last.path, last.prop)
                           \in DOMAIN attributes ) =>
                    last.loader =
                        <<attributes[_wildcard_path_loader_key(last.path, last.prop)]>>

\* C17 witness: the context holds a wildcard option of the relationship
\* category that names a strategy key, the very key registered for the column
\* property too, and setup() of the column property found no option and
\* delegated to its default strategy.
C17_Witness ==
    /\ last.op = "setup"
    /\ last.prop = "name"
    /\ _wildcard_path_loader_key(RootPath, "addresses") \in DOMAIN attributes
    /\ attributes[_wildcard_path_loader_key(RootPath, "addresses")].strategy # <<>>
    /\ last.loader = <<>>
    /\ last.invoked # <<>>
    /\ last.invoked[1].strategy = strategy["name"]

\* C18 as stated: the registrations applied in any other order give the same
\* result for every lookup, the returned class or the exception raised; so
\* does a registration for an owner class and key that are registered
\* already, which in the other order would have been the one replaced.
C18_LookupIgnoresRegistrationOrder ==
    /\ [](\A order \in OrdersOf(RegistrationsOf(_all_strategies)) :
            \A self \in Props, key \in KeyInputs :
                _strategy_lookup(Replay(order), PropClass(self), self, key)
                    = _strategy_lookup(_all_strategies, PropClass(self), self, key))
    /\ [][ ( /\ last'.op = "strategy_for"
              /\ HasRegistry(_all_strategies, last'.cls)
              /\ sorted(last'.key) \in
                     DOMAIN RegistryOf(_all_strategies, last'.cls) ) =>
                \A self \in Props, key \in KeyInputs :
                    _strategy_lookup(_all_strategies', PropClass(self), self, key)
                        = _strategy_lookup(_all_strategies, PropClass(self), self, key)
          ]_vars

\* C18 amended: registrations of distinct (owner class, key) pairs, applied
\* in any order, give every lookup the same returned class, and the same
\* lookups raise, with the same class, requesting property and key (the
\* owner and strategy the exception names may differ).  A registration for
\* an owner class and key registered already replaces the entry: lookups
\* that resolved through it return the newly decorated class, all other
\* lookups return what they did.
C18_OrderMattersOnlyForConflictsAndDiagnostics ==
    /\ [](\A order \in OrdersOf(RegistrationsOf(_all_strategies)) :
            \A self \in Props, key \in KeyInputs :
                LET a == _strategy_lookup(Replay(order), PropClass(self), self, key)
                    b == _strategy_lookup(_all_strategies, PropClass(self), self, key)
                IN  /\ a.returned = b.returned
                    /\ (a.raised = <<>>) <=> (b.raised = <<>>)
                    /\ a.raised # <<>> =>
                          /\ a.raised[1].cls = b.raised[1].cls
                          /\ a.raised[1].requesting_property =
                                b.raised[1].requesting_property
                          /\ a.raised[1].key = b.raised[1].key)
    /\ [][ ( /\ last'.op = "strategy_for"
              /\ HasRegistry(_all_strategies, last'.cls)
              /\ sorted(last'.key) \in
                     DOMAIN RegistryOf(_all_strategies, last'.cls) ) =>
                \A self \in Props, key \in KeyInputs :
                    LET before == _strategy_lookup(_all_strategies,
                                                   PropClass(self), self, key)
                        after == _strategy_lookup(_all_strategies',
                                                  PropClass(self), self, key)
                        through ==
                            /\ key = sorted(last'.key)
                            /\ \E i \in MroOwners(PropClass(self), key) :
                                  /\ Mro(PropClass(self))[i] = last'.cls
                                  /\ \A j \in MroOwners(PropClass(self), key) : i <= j
                    IN  IF through
                        THEN after.returned = last'.strategy_cls /\ after.raised = <<>>
                        ELSE after.returned = before.returned
          ]_vars

\* C18 witness: the base class was registered before the derived class, both
\* for the key looked up and with different strategy classes, and the lookup
\* from the derived class returned the derived class's registration.
C18_Witness ==
    /\ last.op = "_strategy_lookup"
    /\ last.cls = "DerivedRelationship"
    /\ Len(_all_strategies) = 2
    /\ _all_strategies[1].cls = "RelationshipProperty"
    /\ _all_strategies[2].cls = "DerivedRelationship"
    /\ last.key \in DOMAIN _all_strategies[1].strats
    /\ last.key \in DOMAIN _all_strategies[2].strats
    /\ _all_strategies[1].strats[last.key] # _all_strategies[2].strats[last.key]
    /\ last.strategy_cls = _all_strategies[2].strats[last.key]

\* C19: process_compile_state_replaced_entities(compile_state,
\* mapper_entities) calls process_compile_state once, with the compile state
\* it was given, and leaves the compile state as that call leaves it (the
\* option attached under its path key, as a direct application does); the
\* replaced entities make no difference to the call or to the result.
C19_ReplacedEntitiesRedispatches ==
    [][ last'.op = "process_compile_state_replaced_entities" =>
          /\ last'.invoked = << [method |-> "process_compile_state",
                                  compile_state |-> attributes] >>
          /\ attributes' = (last'.path_key :> last'.loader[1]) @@ attributes
          /\ \A e \in MapperEntities :
                process_compile_state_replaced_entities(
                    attributes, e, last'.path_key, last'.loader[1].strategy)
                  = [compile_state |-> attributes', invoked |-> last'.invoked]
          /\ UNCHANGED <<_all_strategies, _strategy_keys, _configure_started,
                         _configure_finished, _strategies, strategy, instances,
                         threads, non_primary, class_manager>>
      ]_vars

\* C19 witness: an option was applied to a compile state whose entities were
\* replaced, it called process_compile_state on a state that held another
\* option, and the compile state now holds both.
C19_Witness ==
    /\ last.op = "process_compile_state_replaced_entities"
    /\ last.mapper_entities # <<>>
    /\ Len(last.invoked) = 1
    /\ last.invoked[1].compile_state # <<>>
    /\ last.path_key \notin DOMAIN last.invoked[1].compile_state
    /\ last.path_key \in DOMAIN attributes
    /\ attributes[last.path_key] = last.loader[1]
    /\ Cardinality(DOMAIN attributes) = 2

FirstOption(path, self) ==
    LET present == TiersPresent(path, self)
    IN  IF present = {} THEN <<>>
        ELSE << attributes[path_keys(path, self)[
                   CHOOSE i \in present : \A j \in present : i <= j]] >>

\* C21: a setup() (create_row_processor()) call that returns has invoked
\* setup_query (create_row_processor) once, on one strategy instance, with
\* the first-hit load option (or None) as loadopt; when that option names a
\* strategy key other than the property's default key, the instance invoked
\* is the one cached for that key, built for that key and that property, and
\* it is not the property's default strategy.
C21_DispatchInvokesOneStrategy ==
    ( /\ last.op \in {"setup", "create_row_processor"}
      /\ last.raised = <<>> ) =>
        LET opt == FirstOption(last.path, last.prop)
            called == last.invoked[1].strategy
        IN  /\ Len(last.invoked) = 1
            /\ last.invoked[1].method =
                  (IF last.op = "setup" THEN "setup_query"
                   ELSE "create_row_processor")
            /\ last.invoked[1].loadopt = opt
            /\ called \in 1..Len(instances)
            /\ ( /\ opt # <<>>
                 /\ opt[1].strategy # <<>>
                 /\ opt[1].strategy # strategy_key(last.prop) ) =>
                   /\ opt[1].strategy \in DOMAIN _strategies[last.prop]
                   /\ called = _strategies[last.prop][opt[1].strategy]
                   /\ instances[called].strategy_key = opt[1].strategy
                   /\ instances[called].parent_property = last.prop
                   /\ called # strategy[last.prop]

\* C21 witness: setup() of the relationship found an exact-path option that
\* names a key other than the default key and invoked the strategy of that
\* key, while the property's default strategy exists.
C21_Witness ==
    /\ last.op = "setup"
    /\ last.prop = "addresses"
    /\ last.raised = <<>>
    /\ _loader_key(last.path, "addresses") \in DOMAIN attributes
    /\ last.loader # <<>>
    /\ last.loader[1].strategy = DeferredInstrument
    /\ Len(last.invoked) = 1
    /\ strategy["addresses"] # 0
    /\ last.invoked[1].strategy # strategy["addresses"]

\* C22: a strategy_for(**kw) applied to strategy class D appends the sorted
\* key to D's own _strategy_keys list and to no other class's: the lists of
\* D's base classes and subclasses stay as they were.  So a class's list
\* holds one entry per registration of that class, the lists together hold
\* as many entries as registrations were made, a class never decorated has
\* no list of its own, and every class a registry names for a key has that
\* key in its list.
C22_KeysListIsPerClass ==
    /\ [](/\ \A c \in StrategyClasses :
               ~_strategy_keys[c].own => _strategy_keys[c].keys = <<>>
          /\ \A r \in RegistrationsOf(_all_strategies) :
               /\ _strategy_keys[r[3]].own
               /\ \E i \in 1..Len(_strategy_keys[r[3]].keys) :
                     _strategy_keys[r[3]].keys[i] = r[2]
          /\ \A c \in StrategyClasses :
               \A i \in 1..Len(_strategy_keys[c].keys) :
                  \A a, b \in 1..Len(_strategy_keys[c].keys[i]) :
                     a < b => NameRank(_strategy_keys[c].keys[i][a][1])
                                 < NameRank(_strategy_keys[c].keys[i][b][1]))
    /\ [][ last'.op = "strategy_for" =>
             /\ _strategy_keys'[last'.strategy_cls].own
             /\ Len(_strategy_keys'[last'.strategy_cls].keys) =
                   Len(_strategy_keys[last'.strategy_cls].keys) + 1
             /\ SubSeq(_strategy_keys'[last'.strategy_cls].keys, 1,
                       Len(_strategy_keys[last'.strategy_cls].keys)) =
                   _strategy_keys[last'.strategy_cls].keys
             /\ PairSet(_strategy_keys'[last'.strategy_cls].keys[
                           Len(_strategy_keys'[last'.strategy_cls].keys)]) =
                   PairSet(last'.key)
             /\ \A c \in StrategyClasses \ {last'.strategy_cls} :
                   _strategy_keys'[c] = _strategy_keys[c]
         ]_vars

\* C22 witness: LoaderA was registered, then its subclass LoaderB under a
\* key of two pairs; each class has the one key it was registered under.
C22_Witness ==
    /\ last.op = "strategy_for"
    /\ last.strategy_cls = "LoaderB"
    /\ StrategyMro("LoaderB")[2] = "LoaderA"
    /\ _strategy_keys["LoaderA"].own
    /\ _strategy_keys["LoaderA"].keys = << LazySelect >>
    /\ _strategy_keys["LoaderB"].keys = << DeferredInstrument >>
    /\ last.key = InstrumentDeferred

\* C23: a call in which _get_strategy(K) raises LoaderStrategyException
\* (made directly, or by setup() or create_row_processor() for the key an
\* option names) changes nothing: every property's cache, default strategy
\* and configure flags, the strategy objects, the registry and the context
\* are as before the call, and K is not a key of the cache.  When the raise
\* happens inside init(), the cache do_init had emptied before the call
\* stays empty and the default strategy keeps its value.
C23_FailedResolutionChangesNothing ==
    [][ ( /\ last'.op \in {"_get_strategy", "setup", "create_row_processor", "init"}
          /\ last'.raised # <<>> ) =>
            /\ last'.raised[1].key = RequestedKey'
            /\ RequestedKey' \notin DOMAIN _strategies'[last'.prop]
            /\ strategy' = strategy
            /\ instances' = instances
            /\ _all_strategies' = _all_strategies
            /\ attributes' = attributes
            /\ \A p \in Props \ {last'.prop} : _strategies'[p] = _strategies[p]
            /\ IF last'.op = "init"
               THEN /\ _strategies'[last'.prop] = <<>>
                    /\ _configure_finished' = _configure_finished
               ELSE /\ _strategies' = _strategies
                    /\ _configure_started' = _configure_started
                    /\ _configure_finished' = _configure_finished
      ]_vars

\* C23 witness: _get_strategy on the configured column property raised for
\* a key registered for relationships only; the cache still holds its
\* default entry and nothing under the key.
C23_Witness ==
    /\ last.op = "_get_strategy"
    /\ last.prop = "name"
    /\ last.key = LazySelect
    /\ last.raised # <<>>
    /\ last.raised[1].key = LazySelect
    /\ DOMAIN _strategies["name"] = { strategy_key("name") }
    /\ _strategies["name"][strategy_key("name")] = strategy["name"]
    /\ strategy["name"] # 0
    /\ AllOwners(LazySelect) # {}

\* C24: once init() has completed on a property, the property's default
\* strategy is the cache entry of its default key, _strategies[strategy_key]
\* is strategy, and stays so over every later call; a setup() or
\* create_row_processor() whose option names the default key invokes the
\* default strategy instance itself and constructs nothing.
C24_DefaultIsCachedUnderDefaultKey ==
    /\ [](\A p \in Props : _configure_finished[p] =>
             /\ strategy[p] # 0
             /\ strategy_key(p) \in DOMAIN _strategies[p]
             /\ _strategies[p][strategy_key(p)] = strategy[p])
    /\ [][ ( /\ last'.op \in {"setup", "create_row_processor"}
             /\ last'.loader # <<>>
             /\ last'.loader[1].strategy = strategy_key(last'.prop) ) =>
               /\ last'.raised = <<>>
               /\ Len(last'.invoked) = 1
               /\ last'.invoked[1].strategy = strategy[last'.prop]
               /\ instances' = instances
               /\ _strategies' = _strategies
         ]_vars

\* C24 witness: setup() of the relationship found an option naming the
\* relationship's own default key and invoked the default strategy, the one
\* strategy object there is.
C24_Witness ==
    /\ last.op = "setup"
    /\ last.prop = "addresses"
    /\ last.loader # <<>>
    /\ last.loader[1].strategy = strategy_key("addresses")
    /\ last.invoked # <<>>
    /\ last.invoked[1].strategy = strategy["addresses"]
    /\ _strategies["addresses"][strategy_key("addresses")] = strategy["addresses"]
    /\ Len(instances) = 1

\* C25: every strategy a property P caches under a key K is an existing
\* object that was constructed for that pair: its parent_property is P and
\* its strategy_key is K.  So no strategy object is in the caches of two
\* properties or under two keys of one property, and a property's default
\* strategy, once set, was constructed for that property and its default key.
C25_CachedStrategyBelongsToItsKey ==
    /\ \A p \in Props : \A k \in DOMAIN _strategies[p] :
          /\ _strategies[p][k] \in 1..Len(instances)
          /\ instances[_strategies[p][k]].parent_property = p
          /\ instances[_strategies[p][k]].strategy_key = k
    /\ \A p, q \in Props :
          \A k \in DOMAIN _strategies[p], j \in DOMAIN _strategies[q] :
             _strategies[p][k] = _strategies[q][j] => (p = q /\ k = j)
    /\ \A p \in Props : strategy[p] # 0 =>
          /\ instances[strategy[p]].parent_property = p
          /\ instances[strategy[p]].strategy_key = strategy_key(p)

\* C25 witness: the relationship caches two strategies of the same strategy
\* class under two keys, two objects, the second resolved for a load option.
C25_Witness ==
    /\ DOMAIN _strategies["addresses"] = { LazySelect, DeferredInstrument }
    /\ _strategies["addresses"][LazySelect] # _strategies["addresses"][DeferredInstrument]
    /\ instances[_strategies["addresses"][LazySelect]].cls =
          instances[_strategies["addresses"][DeferredInstrument]].cls
    /\ last.op = "create_row_processor"
    /\ last.strat = _strategies["addresses"][DeferredInstrument]

\* C26: _configure_finished implies _configure_started, and a finished
\* property has the default strategy a completed do_init gave it; the flag
\* becomes true only in an init() that raised nothing.  An init() in which
\* do_init raises leaves the property started and not finished, with no
\* default strategy and an empty cache, and the LoaderStrategyException for
\* the default key reaches the caller.
C26_FinishedOnlyAfterDoInit ==
    /\ [](\A p \in Props :
             /\ _configure_finished[p] => _configure_started[p]
             /\ _configure_finished[p] => strategy[p] # 0
             /\ _configure_started[p] =>
                   (_configure_finished[p] \/ strategy[p] = 0))
    /\ [][ /\ \A p \in Props :
                 (~_configure_finished[p] /\ _configure_finished'[p]) =>
                    /\ last'.op = "init"
                    /\ last'.prop = p
                    /\ last'.raised = <<>>
           /\ (last'.op = "init" /\ last'.raised # <<>>) =>
                 /\ _configure_started'[last'.prop]
                 /\ ~_configure_finished'[last'.prop]
                 /\ strategy'[last'.prop] = 0
                 /\ _strategies'[last'.prop] = <<>>
                 /\ last'.raised[1].key = strategy_key(last'.prop)
                 /\ last'.raised[1].requesting_property = last'.prop
         ]_vars

\* C26 witness: init() of the column property raised because its default key
\* is registered for no class of its MRO; the property is started and not
\* finished, while the relationship is configured.
C26_Witness ==
    /\ last.op = "init"
    /\ last.prop = "name"
    /\ last.raised # <<>>
    /\ last.raised[1].key = strategy_key("name")
    /\ MroOwners(PropClass("name"), strategy_key("name")) = {}
    /\ _configure_started["name"]
    /\ ~_configure_finished["name"]
    /\ _configure_finished["addresses"]

\* C27: a setup() or create_row_processor() call leaves every property's
\* default strategy and configure flags, the registry, the key lists of the
\* strategy classes and context.attributes unchanged.  Of the caches it
\* changes at most the one of the property it was called on, by adding at
\* most one entry: for the key the option found names, when that key was not
\* cached, holding a newly constructed object.  No entry is removed or
\* replaced, and the objects that existed are not modified.
C27_DispatchOnlyAddsCacheEntries ==
    [][ last'.op \in {"setup", "create_row_processor"} =>
          /\ <<strategy, _configure_started, _configure_finished,
               _all_strategies, _strategy_keys, attributes>>' =
             <<strategy, _configure_started, _configure_finished,
               _all_strategies, _strategy_keys, attributes>>
          /\ \A p \in Props \ {last'.prop} : _strategies'[p] = _strategies[p]
          /\ \A k \in DOMAIN _strategies[last'.prop] :
                /\ k \in DOMAIN _strategies'[last'.prop]
                /\ _strategies'[last'.prop][k] = _strategies[last'.prop][k]
          /\ \A k \in DOMAIN _strategies'[last'.prop] \ DOMAIN _strategies[last'.prop] :
                /\ last'.loader # <<>>
                /\ k = last'.loader[1].strategy
                /\ _strategies'[last'.prop][k] = Len(instances) + 1
                /\ Len(instances') = Len(instances) + 1
          /\ Cardinality(DOMAIN _strategies'[last'.prop]) <=
                Cardinality(DOMAIN _strategies[last'.prop]) + 1
          /\ Len(instances') >= Len(instances)
          /\ SubSeq(instances', 1, Len(instances)) = instances
      ]_vars

\* C27 witness: setup() of the relationship added the cache entry of the key
\* its option names, a second object, next to the default entry.
C27_Witness ==
    /\ last.op = "setup"
    /\ last.prop = "addresses"
    /\ last.raised = <<>>
    /\ last.loader # <<>>
    /\ last.loader[1].strategy = DeferredInstrument
    /\ strategy["addresses"] = 1
    /\ _strategies["addresses"] =
          (LazySelect :> 1) @@ (DeferredInstrument :> 2)
    /\ last.strat = 2
    /\ Len(instances) = 2

====
